---- MODULE Spec2Model ----
(***************************************************************************)
(* The ephemeral content server of server.cjs: the in-memory store         *)
(* sharedContent, the socket.io fan-out, the 30 s expiry sweep and the     *)
(* upload / share-text / download routes, together with the state each     *)
(* browser client keeps in the useSocket hook.                             *)
(*                                                                         *)
(* Node runs one handler at a time: pc is the position of the handler that *)
(* is running ("idle" between handlers), h holds its local variables and   *)
(* its HTTP response, emitted the socket.io events it has sent so far.     *)
(* The clock (Date.now()) is the only thing that moves while a handler is  *)
(* between two statements.                                                 *)
(*                                                                         *)
(* Spec is the server with its clients. LiveSpec is the same server left   *)
(* running, with fairness. TextSpec is one share-text request with any     *)
(* text. UiSpec is the TextShare form in front of the share-text route.    *)
(***************************************************************************)
EXTENDS Integers, Sequences, FiniteSets

\* ---------------------------------------------------------------- bounds
\* Number of uuidv4() calls in a run.
MaxIds == 2
\* Number of browser clients; each may connect and leave any number of times.
MaxClients == 2
\* Number of pieces a request's text is put together from.
MaxTokens == 3
\* Number of toasts on the screen at once.
MaxToasts == 3
\* Number of File objects dropped on the upload area.
MaxDrops == 2

\* ------------------------------------------------------------- constants
\* server.cjs:128 and :170, "10 * 60 * 1000; // 10 minutes"
TTL == 10 * 60 * 1000

\* The instants (milliseconds) at which the clock is read: two consecutive ones
\* in which entries are created, and the two a TTL later, where an entry created
\* at 0 is at its expiresAt and one millisecond past it.
Times == {0, 1, TTL, TTL + 1}
Ids == 1..MaxIds
Clients == 1..MaxClients

\* server.cjs:46, "fileSize: 100 * 1024 * 1024, // 100MB"
FileSizeLimit == 100 * 1024 * 1024

\* A string is a sequence of one-character strings.
NoFile == [none |-> TRUE]
\* The file part of an upload request (originalname, mimetype, size, and buffer,
\* the bytes of the part or the first of them): a small image, a Windows
\* executable, and an image one byte over multer's limit.
Files ==
  { [originalname |-> "a.png", mimetype |-> <<"i", "m", "a", "g", "e", "/", "p", "n", "g">>,
     size |-> 2, buffer |-> <<7, 9>>],
    [originalname |-> "a.exe",
     mimetype |-> <<"a", "p", "p", "l", "i", "c", "a", "t", "i", "o", "n", "/", "x", "-", "m", "s", "d", "o", "w", "n", "l", "o", "a", "d">>,
     size |-> 2, buffer |-> <<7, 9>>],
    [originalname |-> "b.png", mimetype |-> <<"i", "m", "a", "g", "e", "/", "p", "n", "g">>,
     size |-> FileSizeLimit + 1, buffer |-> <<7, 9>>] }
\* req.body of a share-text request: { text, type }
Bodies ==
  { [text |-> <<>>, type |-> "text"],
    [text |-> <<" ">>, type |-> "text"],
    [text |-> <<"h", "i">>, type |-> "markdown"] }

\* Texts a share-text request may carry: up to MaxTokens of these pieces in a
\* row, and the sentence 'Check https://example.com now'.
Tokens ==
  { <<"h", "t", "t", "p", ":", "/", "/">>,
    <<"h", "t", "t", "p", "s", ":", "/", "/">>,
    <<"a">>,
    <<" ">> }
RECURSIVE TextsOf(_)
TextsOf(n) ==
  IF n = 0 THEN {<<>>}
  ELSE LET shorter == TextsOf(n - 1) IN
       shorter \cup {s \o t : s \in shorter, t \in Tokens}
Example ==
  <<"C", "h", "e", "c", "k", " ", "h", "t", "t", "p", "s", ":", "/", "/", "e", "x", "a", "m", "p", "l", "e", ".", "c", "o", "m", " ", "n", "o", "w">>
ExampleUrl ==
  <<"h", "t", "t", "p", "s", ":", "/", "/", "e", "x", "a", "m", "p", "l", "e", ".", "c", "o", "m">>
TextBodies ==
  {[text |-> t, type |-> ty] : t \in TextsOf(MaxTokens) \cup {Example}, ty \in {"text", "markdown"}}

\* TextShare.tsx:111, "{text.length}/1000 characters"
TextLimit == 1000
\* What the textarea may hold when the form is submitted: nothing, a blank, a
\* short text, and texts of exactly TextLimit and of TextLimit + 1 characters.
Typed ==
  { <<>>,
    <<" ">>,
    <<"h", "i">>,
    [i \in 1..TextLimit |-> "a"],
    [i \in 1..(TextLimit + 1) |-> "a"] }

VARIABLES
  now,               \* Date.now()
  store,             \* sharedContent: the Map's entries in insertion order, <<[id, content]>>
  connectedClients,  \* connectedClients: Set of socket ids
  sockets,           \* the sockets of the io namespace (those io.emit reaches)
  nextId,            \* the number of uuidv4() values drawn so far, plus one
  pc,                \* position of the running handler
  h,                 \* the running handler's locals (and its HTTP response)
  emitted,           \* the events the running handler has emitted, [to, name, data]
  client,            \* per client, the useSocket state [sharedContent, connectedClients]
  heard,             \* per connected client, the content events it was sent: [name, ids]
  published,         \* the ids io.emit('newContent', ...) has been called with
  removed,           \* the ids io.emit('contentRemoved', ...) has been called with
  inserted,          \* every sharedContent.set so far, in order: <<[id, type, expiresAt]>>
  ui,                \* the TextShare component's state [text, shareType, isSharing, toast]
  toasts,            \* App's toasts state: <<[id, type]>>
  uploads            \* the FileUpload component: its uploads state, its awaits and timers

vars == <<now, store, connectedClients, sockets, nextId, pc, h, emitted, client, heard,
          published, removed, inserted, ui, toasts, uploads>>

NoHandler == [op |-> "none"]

\* ------------------------------------------------------------ Map helpers
RECURSIVE SeqFilterOut(_, _)
SeqFilterOut(m, id) ==
  IF m = <<>> THEN <<>>
  ELSE IF Head(m).id = id THEN SeqFilterOut(Tail(m), id)
       ELSE <<Head(m)>> \o SeqFilterOut(Tail(m), id)

MapKeys(m) == {m[i].id : i \in 1..Len(m)}
MapHas(m, id) == id \in MapKeys(m)
MapGet(m, id) == m[CHOOSE i \in 1..Len(m) : m[i].id = id].content
\* Map.prototype.set: a new key goes last, an existing key keeps its place.
MapSet(m, id, content) ==
  IF MapHas(m, id)
    THEN [i \in 1..Len(m) |-> IF m[i].id = id THEN [id |-> id, content |-> content] ELSE m[i]]
    ELSE Append(m, [id |-> id, content |-> content])
MapDelete(m, id) == SeqFilterOut(m, id)
\* Array.from(map.values())
MapValues(m) == [i \in 1..Len(m) |-> m[i].content]

\* ------------------------------------------------------------- socket.io
\* An id taken from the clock: two requests in one millisecond share it.
NewIdFromClock == now + 1
\* uuidv4(): a value never returned before
NewId == nextId

Event(to, name, data) == [to |-> to, name |-> name, data |-> data]
\* socket.broadcast.emit(name, data): every socket but one
IoEmitBroadcast(name, data) ==
  Event(sockets \ {s \in sockets : \A t \in sockets : s <= t}, name, data)
\* io.emit(name, data) reaches every socket of the namespace
IoEmit(name, data) == Event(sockets, name, data)
\* socket.emit(name, data) reaches that socket
SocketEmit(s, name, data) == Event({s}, name, data)

\* ----------------------------------------------------------- useSocket.ts
ClientInit == [sharedContent |-> <<>>, connectedClients |-> 0]

RECURSIVE WithoutId(_, _)
\* prev.filter(item => item.id !== contentId)
WithoutId(list, id) ==
  IF list = <<>> THEN <<>>
  ELSE IF Head(list).id = id THEN WithoutId(Tail(list), id)
       ELSE <<Head(list)>> \o WithoutId(Tail(list), id)

\* The four newSocket.on(...) callbacks.
ClientOn(st, name, data) ==
  CASE name = "clientCount"    -> [st EXCEPT !.connectedClients = data]
    [] name = "initialContent" -> [st EXCEPT !.sharedContent = data]
    [] name = "newContent"     -> [st EXCEPT !.sharedContent = <<data>> \o @]
    [] name = "contentRemoved" -> [st EXCEPT !.sharedContent = WithoutId(@, data)]

\* The ids a content event names, in the event's order.
EventIds(name, data) ==
  CASE name = "initialContent" -> [i \in 1..Len(data) |-> data[i].id]
    [] name = "newContent"     -> <<data.id>>
    [] name = "contentRemoved" -> <<data>>
    [] OTHER                   -> <<>>

RECURSIVE Deliver(_, _)
\* The client states after the events evs have arrived, in order.
Deliver(cl, evs) ==
  IF evs = <<>> THEN cl
  ELSE Deliver([c \in Clients |->
                  IF c \in Head(evs).to THEN ClientOn(cl[c], Head(evs).name, Head(evs).data)
                  ELSE cl[c]],
               Tail(evs))

RECURSIVE Record(_, _)
\* The history of content events per client, extended by evs.
Record(hd, evs) ==
  IF evs = <<>> THEN hd
  ELSE Record([c \in Clients |->
                 IF c \in Head(evs).to /\ Head(evs).name # "clientCount"
                   THEN Append(hd[c], [name |-> Head(evs).name,
                                       ids |-> EventIds(Head(evs).name, Head(evs).data)])
                   ELSE hd[c]],
              Tail(evs))

\* The running handler emits evs: they are sent and reach their clients in order.
Emit(evs) ==
  /\ emitted' = emitted \o evs
  /\ client' = Deliver(client, evs)
  /\ heard' = Record(heard, evs)
  /\ published' = published \cup
       {evs[i].data.id : i \in {n \in 1..Len(evs) : evs[n].name = "newContent"}}
  /\ removed' = removed \cup
       {evs[i].data : i \in {n \in 1..Len(evs) : evs[n].name = "contentRemoved"}}

\* ---------------------------------------------------------------- strings
IsSpace(c) == c \in {" ", "\t", "\n"}

\* A trim that strips nothing.
TrimNone(t) == t

\* String.prototype.trim
RECURSIVE TrimStart(_)
TrimStart(t) ==
  IF t # <<>> /\ IsSpace(Head(t)) THEN TrimStart(Tail(t)) ELSE t
RECURSIVE TrimEnd(_)
TrimEnd(t) ==
  IF t # <<>> /\ IsSpace(t[Len(t)]) THEN TrimEnd(SubSeq(t, 1, Len(t) - 1)) ELSE t
Trim(t) == TrimEnd(TrimStart(t))

\* marked(text): the HTML the markdown renderer returns for a paragraph
Marked(t) == <<"<", "p", ">">> \o t \o <<"<", "/", "p", ">">>

HasAt(t, i, pat) ==
  /\ i + Len(pat) - 1 <= Len(t)
  /\ SubSeq(t, i, i + Len(pat) - 1) = pat
\* The pattern without its optional s: /(http:\/\/[^\s]+)/g
SchemeAtHttpOnly(t, i) ==
  IF HasAt(t, i, <<"h", "t", "t", "p", ":", "/", "/">>) THEN 7 ELSE 0
\* Length of "https://" or "http://" at position i, 0 when neither is there.
SchemeAt(t, i) ==
  IF HasAt(t, i, <<"h", "t", "t", "p", "s", ":", "/", "/">>) THEN 8
  ELSE IF HasAt(t, i, <<"h", "t", "t", "p", ":", "/", "/">>) THEN 7
  ELSE 0
\* Last index of the run of non-whitespace characters that starts at j.
RECURSIVE RunEnd(_, _)
RunEnd(t, j) ==
  IF j + 1 <= Len(t) /\ ~IsSpace(t[j + 1]) THEN RunEnd(t, j + 1) ELSE j
\* The positions from i on at which the pattern matches.
MatchStarts(t, i) ==
  {k \in i..Len(t) :
     LET n == SchemeAt(t, k) IN n > 0 /\ k + n <= Len(t) /\ ~IsSpace(t[k + n])}
\* text.match(/(https?:\/\/[^\s]+)/g) from position i on; <<>> stands for null.
\* The scan takes the first position that matches, consumes the run of
\* non-whitespace characters there, and goes on behind it.
RECURSIVE UrlMatches(_, _)
UrlMatches(t, i) ==
  IF MatchStarts(t, i) = {} THEN <<>>
  ELSE LET k == CHOOSE m \in MatchStarts(t, i) : \A o \in MatchStarts(t, i) : m <= o
           e == RunEnd(t, k + SchemeAt(t, k))
       IN <<SubSeq(t, k, e)>> \o UrlMatches(t, e + 1)
Metadata(t) ==
  LET urls == UrlMatches(t, 1) IN
  IF urls # <<>> THEN [hasLinks |-> TRUE, firstUrl |-> urls[1]] ELSE <<>>

\* ------------------------------------------------------------------ multer
\* String.prototype.startsWith
StartsWith(t, prefix) ==
  /\ Len(prefix) <= Len(t)
  /\ SubSeq(t, 1, Len(prefix)) = prefix

\* 'image/', 'video/', 'audio/', 'text/', 'application/pdf', 'application/zip',
\* 'application/x-zip-compressed', 'application/msword',
\* 'application/vnd.openxmlformats-officedocument', 'application/json',
\* 'application/javascript'
allowedTypes ==
  << <<"i", "m", "a", "g", "e", "/">>,
     <<"v", "i", "d", "e", "o", "/">>,
     <<"a", "u", "d", "i", "o", "/">>,
     <<"t", "e", "x", "t", "/">>,
     <<"a", "p", "p", "l", "i", "c", "a", "t", "i", "o", "n", "/", "p", "d", "f">>,
     <<"a", "p", "p", "l", "i", "c", "a", "t", "i", "o", "n", "/", "z", "i", "p">>,
     <<"a", "p", "p", "l", "i", "c", "a", "t", "i", "o", "n", "/", "x", "-", "z", "i", "p", "-", "c", "o", "m", "p", "r", "e", "s", "s", "e", "d">>,
     <<"a", "p", "p", "l", "i", "c", "a", "t", "i", "o", "n", "/", "m", "s", "w", "o", "r", "d">>,
     <<"a", "p", "p", "l", "i", "c", "a", "t", "i", "o", "n", "/", "v", "n", "d", ".", "o", "p", "e", "n", "x", "m", "l", "f", "o", "r", "m", "a", "t", "s", "-", "o", "f", "f", "i", "c", "e", "d", "o", "c", "u", "m", "e", "n", "t">>,
     <<"a", "p", "p", "l", "i", "c", "a", "t", "i", "o", "n", "/", "j", "s", "o", "n">>,
     <<"a", "p", "p", "l", "i", "c", "a", "t", "i", "o", "n", "/", "j", "a", "v", "a", "s", "c", "r", "i", "p", "t">> >>

\* A filter that lets every type through.
FileFilterAny(file) == TRUE
\* fileFilter: allowedTypes.some(type => file.mimetype.startsWith(type))
FileFilter(file) ==
  \E k \in 1..Len(allowedTypes) : StartsWith(file.mimetype, allowedTypes[k])

\* limits.fileSize: multer gives up on a part that is longer.
WithinLimits(file) == file.size <= FileSizeLimit

\* ----------------------------------------------------------------- entries
FileData(fileId, file, expiresAt, uploadedAt) ==
  [ id |-> fileId,
    type |-> "file",
    filename |-> file.originalname,
    mimetype |-> file.mimetype,
    size |-> file.size,
    buffer |-> file.buffer,
    uploadedAt |-> uploadedAt,
    expiresAt |-> expiresAt,
    downloadUrl |-> <<"/api/download/", fileId>> ]

\* const clientData = { ...fileData }; delete clientData.buffer;
ClientData(fileData) ==
  [f \in DOMAIN fileData \ {"buffer"} |-> fileData[f]]

ContentData(contentId, text, processedContent, metadata, expiresAt, sharedAt) ==
  [ id |-> contentId,
    type |-> "text",
    content |-> text,
    processedContent |-> processedContent,
    metadata |-> metadata,
    sharedAt |-> sharedAt,
    expiresAt |-> expiresAt ]

\* The sweep's and the download route's test, "now > content.expiresAt".
IsExpired(t, content) == t > content.expiresAt

\* A connection handler that sends no current content.
CurrentContentNone(m) == <<>>
\* The array the connection handler sends as 'initialContent'.
CurrentContent(m) == MapValues(m)

\* TextShare.tsx: useState(''), useState('text'), useState(false); toast is the
\* type of the last onAddToast call.
UiInit == [text |-> <<>>, shareType |-> "text", isSharing |-> FALSE, toast |-> "none"]

\* App.tsx: useState<ToastMessage[]>([]) is the empty list of toasts.
\* FileUpload.tsx: useState<UploadProgress[]>([]); no file has been dropped, no
\* onFileUpload is pending, no interval and no 3 s timeout is running.
UploadsInit ==
  [list |-> <<>>, dropped |-> {}, pending |-> {}, intervals |-> {}, timeouts |-> {}]

Init ==
  /\ now = 0
  /\ store = <<>>
  /\ connectedClients = {}
  /\ sockets = {}
  /\ nextId = 1
  /\ pc = "idle"
  /\ h = NoHandler
  /\ emitted = <<>>
  /\ client = [c \in Clients |-> ClientInit]
  /\ heard = [c \in Clients |-> <<>>]
  /\ published = {}
  /\ removed = {}
  /\ inserted = <<>>
  /\ ui = UiInit
  /\ toasts = <<>>
  /\ uploads = UploadsInit

\* Date.now() moves on: by any amount between two handlers, by a millisecond
\* between two statements of one handler that read the clock.
TickIn(instants) ==
  /\ \E t \in instants :
       /\ t > now
       /\ \/ pc = "idle"
          \/ pc \in {"uploadBuild", "shareBuild"} /\ t = now + 1
       /\ now' = t
  /\ UNCHANGED <<store, connectedClients, sockets, nextId, pc, h, emitted, client, heard, published, removed, inserted, ui, toasts, uploads>>

Tick == TickIn(Times)

\* ------------------------------------------------- io.on('connection', ...)
\* A handler that publishes the count before it sends the snapshot.
ConnectCountFirst ==
  /\ pc = "idle"
  /\ \E s \in Clients \ sockets :
       /\ sockets' = sockets \cup {s}
       /\ connectedClients' = connectedClients \cup {s}
       /\ LET evs == << Event(sockets', "clientCount", Cardinality(connectedClients')),
                        SocketEmit(s, "initialContent", CurrentContent(store)) >> IN
            /\ emitted' = emitted \o evs
            /\ client' = Deliver([client EXCEPT ![s] = ClientInit], evs)
            /\ heard' = Record([heard EXCEPT ![s] = <<>>], evs)
       /\ h' = [op |-> "connection", socket |-> s]
  /\ pc' = "done"
  /\ UNCHANGED <<now, store, nextId, published, removed, inserted, ui, toasts, uploads>>

\* A client mounts useSocket and its socket joins the namespace; the socket is
\* named after its client.
Connect ==
  /\ pc = "idle"
  /\ \E s \in Clients \ sockets :
       /\ sockets' = sockets \cup {s}
       /\ connectedClients' = connectedClients \cup {s}
       /\ LET evs == << SocketEmit(s, "initialContent", CurrentContent(store)),
                        Event(sockets', "clientCount", Cardinality(connectedClients')) >> IN
            /\ emitted' = emitted \o evs
            /\ client' = Deliver([client EXCEPT ![s] = ClientInit], evs)
            /\ heard' = Record([heard EXCEPT ![s] = <<>>], evs)
       /\ h' = [op |-> "connection", socket |-> s]
  /\ pc' = "done"
  /\ UNCHANGED <<now, store, nextId, published, removed, inserted, ui, toasts, uploads>>

\* A handler that publishes the size before it deletes the socket's id.
DisconnectCountFirst ==
  /\ pc = "idle"
  /\ \E s \in sockets :
       /\ sockets' = sockets \ {s}
       /\ connectedClients' = connectedClients \ {s}
       /\ LET evs == << Event(sockets', "clientCount", Cardinality(connectedClients)) >> IN
            /\ emitted' = emitted \o evs
            /\ client' = Deliver([client EXCEPT ![s] = ClientInit], evs)
            /\ heard' = Record([heard EXCEPT ![s] = <<>>], evs)
       /\ h' = [op |-> "disconnect", socket |-> s]
  /\ pc' = "done"
  /\ UNCHANGED <<now, store, nextId, published, removed, inserted, ui, toasts, uploads>>

\* socket.on('disconnect', ...): the client has unmounted (newSocket.close()) and
\* its socket has left the namespace already.
Disconnect ==
  /\ pc = "idle"
  /\ \E s \in sockets :
       /\ sockets' = sockets \ {s}
       /\ connectedClients' = connectedClients \ {s}
       /\ LET evs == << Event(sockets', "clientCount", Cardinality(connectedClients')) >> IN
            /\ emitted' = emitted \o evs
            /\ client' = Deliver([client EXCEPT ![s] = ClientInit], evs)
            /\ heard' = Record([heard EXCEPT ![s] = <<>>], evs)
       /\ h' = [op |-> "disconnect", socket |-> s]
  /\ pc' = "done"
  /\ UNCHANGED <<now, store, nextId, published, removed, inserted, ui, toasts, uploads>>

\* ------------------------------------------------------- POST /api/upload
\* upload.single('file') runs first: a part the filter refuses or that is over
\* the size limit ends the request with multer's error (express answers 500) and
\* the route's handler does not run.
UploadBegin ==
  /\ pc = "idle"
  /\ \E file \in Files \cup {NoFile} :
       IF file = NoFile
         THEN /\ pc' = "done"
              /\ h' = [op |-> "upload", status |-> 400]
              /\ UNCHANGED nextId
         ELSE IF ~FileFilter(file) \/ ~WithinLimits(file)
         THEN /\ pc' = "done"
              /\ h' = [op |-> "upload", status |-> 500]
              /\ UNCHANGED nextId
         ELSE /\ nextId <= MaxIds
              /\ pc' = "uploadBuild"
              /\ h' = [op |-> "upload", file |-> file, fileId |-> NewId,
                       expiresAt |-> now + TTL]
              /\ nextId' = nextId + 1
  /\ UNCHANGED <<now, store, connectedClients, sockets, emitted, client, heard, published, removed, inserted, ui, toasts, uploads>>

\* fileData is built, but sharedContent.set has not run when the broadcast goes out.
UploadBuildNoSet ==
  /\ pc = "uploadBuild"
  /\ h' = [op |-> "upload", fileId |-> h.fileId,
           fileData |-> FileData(h.fileId, h.file, h.expiresAt, now),
           expiresAt |-> h.expiresAt]
  /\ pc' = "uploadEmit"
  /\ UNCHANGED <<now, store, connectedClients, sockets, nextId, emitted, client, heard, published, removed, inserted, ui, toasts, uploads>>

UploadBuild ==
  /\ pc = "uploadBuild"
  /\ LET fileData == FileData(h.fileId, h.file, h.expiresAt, now) IN
       /\ store' = MapSet(store, h.fileId, fileData)
       /\ inserted' = Append(inserted, [id |-> h.fileId, type |-> "file", expiresAt |-> h.expiresAt])
       /\ h' = [op |-> "upload", fileId |-> h.fileId, fileData |-> fileData,
                expiresAt |-> h.expiresAt]
  /\ pc' = "uploadEmit"
  /\ UNCHANGED <<now, connectedClients, sockets, nextId, emitted, client, heard, published, removed, ui, toasts, uploads>>

\* "delete fileData.buffer" on the stored object itself, not on a copy of it.
UploadEmitStripsStored ==
  /\ pc = "uploadEmit"
  /\ Emit(<< IoEmit("newContent", ClientData(h.fileData)) >>)
  /\ store' = MapSet(store, h.fileId, ClientData(h.fileData))
  /\ h' = [op |-> "upload", status |-> 200, fileId |-> h.fileId,
           expiresAt |-> h.expiresAt]
  /\ pc' = "done"
  /\ UNCHANGED <<now, connectedClients, sockets, nextId, inserted, ui, toasts, uploads>>

UploadEmit ==
  /\ pc = "uploadEmit"
  /\ Emit(<< IoEmit("newContent", ClientData(h.fileData)) >>)
  /\ h' = [op |-> "upload", status |-> 200, fileId |-> h.fileId,
           expiresAt |-> h.expiresAt]
  /\ pc' = "done"
  /\ UNCHANGED <<now, store, connectedClients, sockets, nextId, inserted, ui, toasts, uploads>>

\* --------------------------------------------------- POST /api/share-text
\* The handler's first half, for the request body it is called with.
ShareStart(body) ==
  LET text == body.text
      type == body.type IN
  /\ IF text = <<>> \/ Len(Trim(text)) = 0
       THEN /\ pc' = "done"
            /\ h' = [op |-> "share", status |-> 400]
            /\ UNCHANGED nextId
       ELSE /\ nextId <= MaxIds
            /\ pc' = "shareBuild"
            /\ h' = [op |-> "share", text |-> text, contentId |-> NewId,
                     expiresAt |-> now + TTL,
                     processedContent |-> IF type = "markdown" THEN Marked(text) ELSE text,
                     metadata |-> Metadata(text)]
            /\ nextId' = nextId + 1
  /\ UNCHANGED <<now, store, connectedClients, sockets, emitted, client, heard, published, removed, inserted, ui, toasts, uploads>>

\* A request arrives while the event loop is free.
ShareBegin ==
  /\ pc = "idle"
  /\ \E body \in Bodies : ShareStart(body)

ShareBuild ==
  /\ pc = "shareBuild"
  /\ LET contentData == ContentData(h.contentId, h.text, h.processedContent,
                                    h.metadata, h.expiresAt, now) IN
       /\ store' = MapSet(store, h.contentId, contentData)
       /\ inserted' = Append(inserted, [id |-> h.contentId, type |-> "text", expiresAt |-> h.expiresAt])
       /\ h' = [op |-> "share", contentId |-> h.contentId, contentData |-> contentData,
                expiresAt |-> h.expiresAt]
  /\ pc' = "shareEmit"
  /\ UNCHANGED <<now, connectedClients, sockets, nextId, emitted, client, heard, published, removed, ui, toasts, uploads>>

ShareEmit ==
  /\ pc = "shareEmit"
  /\ Emit(<< IoEmit("newContent", h.contentData) >>)
  /\ h' = [op |-> "share", status |-> 200, contentId |-> h.contentId,
           expiresAt |-> h.expiresAt]
  /\ pc' = "done"
  /\ UNCHANGED <<now, store, connectedClients, sockets, nextId, inserted, ui, toasts, uploads>>

\* ----------------------------------------------- GET /api/download/:fileId
Download ==
  /\ pc = "idle"
  /\ \E fileId \in Ids :
       IF ~MapHas(store, fileId) \/ MapGet(store, fileId).type # "file"
         THEN /\ h' = [op |-> "download", fileId |-> fileId, status |-> 404]
              /\ UNCHANGED store
         ELSE IF IsExpired(now, MapGet(store, fileId))
           THEN /\ store' = MapDelete(store, fileId)
                /\ h' = [op |-> "download", fileId |-> fileId, status |-> 410]
           ELSE /\ h' = [op |-> "download", fileId |-> fileId, status |-> 200,
                         body |-> MapGet(store, fileId).buffer]
                /\ UNCHANGED store
  /\ pc' = "done"
  /\ UNCHANGED <<now, connectedClients, sockets, nextId, emitted, client, heard, published, removed, inserted, ui, toasts, uploads>>

\* ------------------------------------------- setInterval(..., 30000): sweep
\* A callback that compares with the time the server started at.
SweepBeginStale ==
  /\ pc = "idle"
  /\ h' = [op |-> "sweep", now |-> 0, entries |-> store, i |-> 1]
  /\ pc' = "sweep"
  /\ UNCHANGED <<now, store, connectedClients, sockets, nextId, emitted, client, heard, published, removed, inserted, ui, toasts, uploads>>

\* entries is what sharedContent.entries() iterates over, i the iterator's place.
SweepBegin ==
  /\ pc = "idle"
  /\ h' = [op |-> "sweep", now |-> now, entries |-> store, i |-> 1]
  /\ pc' = "sweep"
  /\ UNCHANGED <<now, store, connectedClients, sockets, nextId, emitted, client, heard, published, removed, inserted, ui, toasts, uploads>>

\* The entry under the iterator is not expired: on to the next one.
SweepKeep ==
  /\ pc = "sweep"
  /\ h.i <= Len(h.entries)
  /\ ~IsExpired(h.now, h.entries[h.i].content)
  /\ h' = [h EXCEPT !.i = @ + 1]
  /\ UNCHANGED <<now, store, connectedClients, sockets, nextId, pc, emitted, client, heard, published, removed, inserted, ui, toasts, uploads>>

\* A sweep that announces an expired entry and leaves it in the Map.
SweepDeleteKeeps ==
  /\ pc = "sweep"
  /\ h.i <= Len(h.entries)
  /\ IsExpired(h.now, h.entries[h.i].content)
  /\ pc' = "sweepEmit"
  /\ UNCHANGED <<now, store, connectedClients, sockets, nextId, h, emitted, client, heard, published, removed, inserted, ui, toasts, uploads>>

SweepDelete ==
  /\ pc = "sweep"
  /\ h.i <= Len(h.entries)
  /\ IsExpired(h.now, h.entries[h.i].content)
  /\ store' = MapDelete(store, h.entries[h.i].id)
  /\ pc' = "sweepEmit"
  /\ UNCHANGED <<now, connectedClients, sockets, nextId, h, emitted, client, heard, published, removed, inserted, ui, toasts, uploads>>

\* A loop that stops at the first entry it removes.
SweepEmitBreak ==
  /\ pc = "sweepEmit"
  /\ Emit(<< IoEmit("contentRemoved", h.entries[h.i].id) >>)
  /\ h' = [h EXCEPT !.i = @ + 1]
  /\ pc' = "done"
  /\ UNCHANGED <<now, store, connectedClients, sockets, nextId, inserted, ui, toasts, uploads>>

SweepEmit ==
  /\ pc = "sweepEmit"
  /\ Emit(<< IoEmit("contentRemoved", h.entries[h.i].id) >>)
  /\ h' = [h EXCEPT !.i = @ + 1]
  /\ pc' = "sweep"
  /\ UNCHANGED <<now, store, connectedClients, sockets, nextId, inserted, ui, toasts, uploads>>

SweepEnd ==
  /\ pc = "sweep"
  /\ h.i > Len(h.entries)
  /\ pc' = "done"
  /\ UNCHANGED <<now, store, connectedClients, sockets, nextId, h, emitted, client, heard, published, removed, inserted, ui, toasts, uploads>>

\* The handler returns; the event loop is free for the next one.
Return ==
  /\ pc = "done"
  /\ pc' = "idle"
  /\ h' = NoHandler
  /\ emitted' = <<>>
  /\ UNCHANGED <<now, store, connectedClients, sockets, nextId, client, heard, published, removed, inserted, ui, toasts, uploads>>

\* The id the running upload or share has drawn.
HandlerId == IF h.op = "upload" THEN h.fileId ELSE h.contentId

Next ==
  \/ Tick
  \/ Connect
  \/ Disconnect
  \/ UploadBegin
  \/ UploadBuild
  \/ UploadEmit
  \/ ShareBegin
  \/ ShareBuild
  \/ ShareEmit
  \/ Download
  \/ SweepBegin
  \/ SweepKeep
  \/ SweepDelete
  \/ SweepEmit
  \/ SweepEnd
  \/ Return

Spec == Init /\ [][Next]_vars

\* ------------------------------------- one share-text request, any text
TextInit ==
  /\ now = 0
  /\ store = <<>>
  /\ connectedClients = {}
  /\ sockets = {}
  /\ nextId = 1
  /\ pc = "request"
  /\ \E body \in TextBodies : h = [op |-> "request", body |-> body]
  /\ emitted = <<>>
  /\ client = [c \in Clients |-> ClientInit]
  /\ heard = [c \in Clients |-> <<>>]
  /\ published = {}
  /\ removed = {}
  /\ inserted = <<>>
  /\ ui = UiInit
  /\ toasts = <<>>
  /\ uploads = UploadsInit

\* The request in h reaches the route's handler.
ShareRequest ==
  /\ pc = "request"
  /\ ShareStart(h.body)

TextNext ==
  \/ ShareRequest
  \/ Tick
  \/ ShareBuild
  \/ ShareEmit
  \/ Return

TextSpec == TextInit /\ [][TextNext]_vars

\* ---------------------------------------------------------- TextShare.tsx
\* onChange={(e) => setText(e.target.value)}; the textarea is disabled while a
\* share is under way.
UiType ==
  /\ ~ui.isSharing
  /\ \E t \in Typed : ui' = [ui EXCEPT !.text = t]
  /\ UNCHANGED <<now, store, connectedClients, sockets, nextId, pc, h, emitted, client, heard, published, removed, inserted, toasts, uploads>>

\* onClick={() => setShareType('text')}, onClick={() => setShareType('markdown')}
UiSetShareType ==
  /\ \E ty \in {"text", "markdown"} : ui' = [ui EXCEPT !.shareType = ty]
  /\ UNCHANGED <<now, store, connectedClients, sockets, nextId, pc, h, emitted, client, heard, published, removed, inserted, toasts, uploads>>

\* handleSubmit up to its await, by the button or by Ctrl+Enter: a blank text
\* gets a warning toast, any other goes to App's handleTextShare, which posts
\* { text, type } to /api/share-text.
UiSubmit ==
  /\ ~ui.isSharing
  /\ pc = "idle"
  /\ IF Len(Trim(ui.text)) = 0
       THEN /\ ui' = [ui EXCEPT !.toast = "warning"]
            /\ UNCHANGED <<pc, h>>
       ELSE /\ nextId <= MaxIds
            /\ ui' = [ui EXCEPT !.isSharing = TRUE]
            /\ pc' = "request"
            /\ h' = [op |-> "request", body |-> [text |-> ui.text, type |-> ui.shareType]]
  /\ UNCHANGED <<now, store, connectedClients, sockets, nextId, emitted, client, heard, published, removed, inserted, toasts, uploads>>

\* handleSubmit after its await: the response is in.
UiSettle ==
  /\ ui.isSharing
  /\ pc = "done"
  /\ ui' = IF h.status = 200
             THEN [ui EXCEPT !.text = <<>>, !.toast = "success", !.isSharing = FALSE]
             ELSE [ui EXCEPT !.toast = "error", !.isSharing = FALSE]
  /\ UNCHANGED <<now, store, connectedClients, sockets, nextId, pc, h, emitted, client, heard, published, removed, inserted, toasts, uploads>>

\* The server's handler returns once the response has gone out.
UiReturn ==
  /\ ~ui.isSharing
  /\ Return

UiNext ==
  \/ UiType
  \/ UiSetShareType
  \/ UiSubmit
  \/ ShareRequest
  \/ ShareBuild
  \/ ShareEmit
  \/ UiSettle
  \/ UiReturn

UiSpec == Init /\ [][UiNext]_vars

\* ------------------------------------------------ App.tsx: the toast list
Digit(n) == <<"0", "1", "2", "3", "4", "5", "6", "7", "8", "9">>[n + 1]
\* Number.prototype.toString of a non-negative integer
RECURSIVE ToString(_)
ToString(n) ==
  IF n < 10 THEN <<Digit(n)>> ELSE ToString(n \div 10) \o <<Digit(n % 10)>>

\* addToast(message, type): the message is fixed by the type in every caller.
AddToast(list, type) == Append(list, [id |-> ToString(now), type |-> type])

RECURSIVE RemoveToast(_, _)
\* prev.filter(toast => toast.id !== id)
RemoveToast(list, id) ==
  IF list = <<>> THEN <<>>
  ELSE IF Head(list).id = id THEN RemoveToast(Tail(list), id)
       ELSE <<Head(list)>> \o RemoveToast(Tail(list), id)

\* A component calls onAddToast.
ToastAdd ==
  /\ Len(toasts) < MaxToasts
  /\ \E type \in {"success", "error", "warning"} : toasts' = AddToast(toasts, type)
  /\ UNCHANGED <<now, store, connectedClients, sockets, nextId, pc, h, emitted, client, heard, published, removed, inserted, ui, uploads>>

\* A ToastItem's timer runs out, or its X is clicked: onRemove(toast.id).
ToastRemove ==
  /\ \E i \in 1..Len(toasts) : toasts' = RemoveToast(toasts, toasts[i].id)
  /\ UNCHANGED <<now, store, connectedClients, sockets, nextId, pc, h, emitted, client, heard, published, removed, inserted, ui, uploads>>

ToastNext ==
  \/ Tick
  \/ ToastAdd
  \/ ToastRemove

ToastSpec == Init /\ [][ToastNext]_vars

\* --------------------------------------------------------- FileUpload.tsx
\* The File objects react-dropzone accepts (maxSize lets none over 100 MB through).
DropFiles == {[name |-> n, size |-> 2] : n \in 1..MaxDrops}

RECURSIVE WithoutFile(_, _)
\* prev.filter(u => u.file !== file)
WithoutFile(list, file) ==
  IF list = <<>> THEN <<>>
  ELSE IF Head(list).file = file THEN WithoutFile(Tail(list), file)
       ELSE <<Head(list)>> \o WithoutFile(Tail(list), file)

\* The interval's callback:
\* prev.map(u => u.file === file ? { ...u, progress: Math.min(u.progress + 10, 90) } : u)
Advance(list, file) ==
  [i \in 1..Len(list) |->
     IF list[i].file = file
       THEN [list[i] EXCEPT !.progress = IF @ + 10 < 90 THEN @ + 10 ELSE 90]
       ELSE list[i]]

\* prev.map(u => u.file === file ? { ...u, progress: 100, status: 'success' } : u)
Succeed(list, file) ==
  [i \in 1..Len(list) |->
     IF list[i].file = file
       THEN [list[i] EXCEPT !.progress = 100, !.status = "success"]
       ELSE list[i]]

\* prev.map(u => u.file === file ? { ...u, status: 'error', error: ... } : u)
Fail(list, file) ==
  [i \in 1..Len(list) |->
     IF list[i].file = file
       THEN [file |-> list[i].file, progress |-> list[i].progress,
             status |-> "error", error |-> "Upload failed"]
       ELSE list[i]]

\* onDrop's loop body up to its await, for a file not dropped before.
DropFile ==
  /\ \E file \in DropFiles \ uploads.dropped :
       IF file.size > FileSizeLimit
         THEN /\ toasts' = AddToast(toasts, "error")
              /\ uploads' = [uploads EXCEPT !.dropped = @ \cup {file}]
         ELSE /\ uploads' = [uploads EXCEPT
                   !.list = Append(@, [file |-> file, progress |-> 0, status |-> "uploading"]),
                   !.dropped = @ \cup {file},
                   !.intervals = @ \cup {file},
                   !.pending = @ \cup {file}]
              /\ UNCHANGED toasts
  /\ UNCHANGED <<now, store, connectedClients, sockets, nextId, pc, h, emitted, client, heard, published, removed, inserted, ui>>

\* 100 ms have passed on a running progressInterval.
ProgressTick ==
  /\ \E file \in uploads.intervals :
       uploads' = [uploads EXCEPT !.list = Advance(@, file)]
  /\ UNCHANGED <<now, store, connectedClients, sockets, nextId, pc, h, emitted, client, heard, published, removed, inserted, ui, toasts>>

\* onFileUpload(file) resolves (App's handleFileUpload got an ok response and
\* added its toast): the rest of the try block.
UploadResolves ==
  /\ \E file \in uploads.pending :
       uploads' = [uploads EXCEPT
         !.pending = @ \ {file},
         !.intervals = @ \ {file},
         !.list = Succeed(@, file),
         !.timeouts = @ \cup {file}]
  /\ toasts' = AddToast(toasts, "success")
  /\ UNCHANGED <<now, store, connectedClients, sockets, nextId, pc, h, emitted, client, heard, published, removed, inserted, ui>>

\* onFileUpload(file) rejects (fetch failed, or the response was not ok): the
\* catch block.
UploadRejects ==
  /\ \E file \in uploads.pending :
       uploads' = [uploads EXCEPT
         !.pending = @ \ {file},
         !.list = Fail(@, file)]
  /\ UNCHANGED <<now, store, connectedClients, sockets, nextId, pc, h, emitted, client, heard, published, removed, inserted, ui, toasts>>

\* The 3 s timeout set after a success runs out.
RemoveAfterSuccess ==
  /\ \E file \in uploads.timeouts :
       uploads' = [uploads EXCEPT !.timeouts = @ \ {file}, !.list = WithoutFile(@, file)]
  /\ UNCHANGED <<now, store, connectedClients, sockets, nextId, pc, h, emitted, client, heard, published, removed, inserted, ui, toasts>>

\* removeUpload(file): the X shown on an upload in error.
RemoveUpload ==
  /\ \E i \in 1..Len(uploads.list) :
       /\ uploads.list[i].status = "error"
       /\ uploads' = [uploads EXCEPT !.list = WithoutFile(@, uploads.list[i].file)]
  /\ UNCHANGED <<now, store, connectedClients, sockets, nextId, pc, h, emitted, client, heard, published, removed, inserted, ui, toasts>>

DropNext ==
  \/ Tick
  \/ DropFile
  \/ ProgressTick
  \/ UploadResolves
  \/ UploadRejects
  \/ RemoveAfterSuccess
  \/ RemoveUpload

DropSpec == Init /\ [][DropNext]_vars

\* ---------------------------------------------- io.emit(...) that throws
\* io.emit throws inside the upload handler's try block: nothing is sent, the
\* catch block logs the error and answers 500.
UploadEmitThrows ==
  /\ pc = "uploadEmit"
  /\ h' = [op |-> "upload", status |-> 500, fileId |-> h.fileId, expiresAt |-> h.expiresAt]
  /\ pc' = "done"
  /\ UNCHANGED <<now, store, connectedClients, sockets, nextId, emitted, client, heard, published, removed, inserted, ui, toasts, uploads>>

\* The same in the share-text handler.
ShareEmitThrows ==
  /\ pc = "shareEmit"
  /\ h' = [op |-> "share", status |-> 500, contentId |-> h.contentId,
           expiresAt |-> h.expiresAt]
  /\ pc' = "done"
  /\ UNCHANGED <<now, store, connectedClients, sockets, nextId, emitted, client, heard, published, removed, inserted, ui, toasts, uploads>>

\* io.emit throws inside the interval callback, which has no try block: the
\* exception is uncaught and the node process ends, its timers with it.
SweepEmitThrows ==
  /\ pc = "sweepEmit"
  /\ pc' = "crashed"
  /\ UNCHANGED <<now, store, connectedClients, sockets, nextId, emitted, client, heard, published, removed, inserted, ui, toasts, uploads, h>>

FaultNext ==
  \/ Next
  \/ UploadEmitThrows
  \/ ShareEmitThrows
  \/ SweepEmitThrows

FaultSpec == Init /\ [][FaultNext]_vars

\* ------------------------------------------------ the server left running
\* The clock is not bounded by Times: it also reaches the millisecond after the
\* expiresAt of whatever is stored.
Deadlines == Times \cup {store[k].content.expiresAt + 1 : k \in 1..Len(store)}
TickOn == TickIn(Deadlines)

\* The statements of a handler that has begun.
HandlerStep ==
  \/ UploadBuild
  \/ UploadEmit
  \/ ShareBuild
  \/ ShareEmit
  \/ SweepKeep
  \/ SweepDelete
  \/ SweepEmit
  \/ SweepEnd
  \/ Return

LiveNext ==
  \/ TickOn
  \/ Connect
  \/ Disconnect
  \/ UploadBegin
  \/ ShareBegin
  \/ Download
  \/ SweepBegin
  \/ HandlerStep

\* Node runs a handler that has begun to its end; time passes; the interval
\* timer keeps firing and its callback runs whenever the event loop is free.
LiveSpec ==
  /\ Init
  /\ [][LiveNext]_vars
  /\ WF_vars(HandlerStep)
  /\ SF_vars(TickOn)
  /\ SF_vars(SweepBegin)

\* =========================================================================
\* Properties
\* =========================================================================
Range(f) == {f[i] : i \in DOMAIN f}
HasBuffer(content) == "buffer" \in DOMAIN content
Announces(ev, id) == ev.name \in {"initialContent", "newContent"} /\ id \in Range(ev.ids)
CountAdded(log, id) ==
  Cardinality({i \in 1..Len(log) : log[i].name = "newContent" /\ log[i].ids = <<id>>})
\* The events the current step emits.
NewEvents == IF Len(emitted') > Len(emitted)
               THEN SubSeq(emitted', Len(emitted) + 1, Len(emitted'))
               ELSE <<>>

\* C1: no event delivered to an observer (the initial snapshot, a content-added
\* broadcast) carries a file entry with its raw payload bytes (the buffer field).
C1_NoPayloadInEvents ==
  \A i \in 1..Len(emitted) :
    /\ emitted[i].name = "newContent" => ~HasBuffer(emitted[i].data)
    /\ emitted[i].name = "initialContent" =>
         \A j \in 1..Len(emitted[i].data) : ~HasBuffer(emitted[i].data[j])

\* C2: a download answers with the entry's content only when now < expiresAt.
C2_DownloadOnlyLive ==
  (pc = "done" /\ h.op = "download" /\ h.status = 200) =>
    /\ MapHas(store, h.fileId)
    /\ now < MapGet(store, h.fileId).expiresAt

\* C3: the listing sent to a connecting observer holds no entry with
\* expiresAt <= now at the moment of the call.
C3_SnapshotExcludesExpired ==
  \A i \in 1..Len(emitted) :
    emitted[i].name = "initialContent" =>
      \A j \in 1..Len(emitted[i].data) : ~(emitted[i].data[j].expiresAt <= now)

C5_ExactlyOneAdded ==
  /\ \A c \in Clients : \A id \in Ids : CountAdded(heard[c], id) <= 1
  /\ (pc = "done" /\ h.op \in {"upload", "share"} /\ h.status = 200) =>
       \A c \in sockets :
         /\ CountAdded(heard[c], HandlerId) = 1
         /\ Cardinality({i \in 1..Len(emitted) :
                           /\ c \in emitted[i].to
                           /\ emitted[i].name = "newContent"
                           /\ emitted[i].data.id = HandlerId}) = 1

C5_Witness ==
  /\ pc = "done" /\ h.op \in {"upload", "share"} /\ h.status = 200
  /\ Cardinality(sockets) >= 2
  /\ \A c \in sockets : CountAdded(heard[c], HandlerId) = 1

\* C6: content-removed(id) is sent to an observer only after that observer was
\* sent the id, by content-added or in its initial snapshot, and is emitted only
\* for an id that content-added was emitted for.
C6_RemovedAfterAnnounced ==
  /\ \A c \in Clients : \A j \in 1..Len(heard[c]) :
       heard[c][j].name = "contentRemoved" =>
         \E i \in 1..(j - 1) : Announces(heard[c][i], heard[c][j].ids[1])
  /\ \A i \in 1..Len(emitted) :
       emitted[i].name = "contentRemoved" => emitted[i].data \in published

C6_Witness ==
  \E c \in Clients : \E i, j \in 1..Len(heard[c]) :
    /\ heard[c][i].name = "contentRemoved"
    /\ heard[c][j].name = "contentRemoved"
    /\ Announces(heard[c][1], heard[c][i].ids[1])
    /\ \E k \in 2..Len(heard[c]) :
         heard[c][k].name = "newContent" /\ heard[c][k].ids = heard[c][j].ids

\* C7: the store write precedes the matching broadcast: when content-added(e) is
\* emitted e is already in the store, when content-removed(id) is emitted id is
\* already out of it.
C7_WriteBeforeBroadcast ==
  [][\A i \in 1..Len(NewEvents) :
       /\ NewEvents[i].name = "newContent" =>
            /\ MapHas(store, NewEvents[i].data.id)
            /\ ClientData(MapGet(store, NewEvents[i].data.id)) = NewEvents[i].data
       /\ NewEvents[i].name = "contentRemoved" => ~MapHas(store, NewEvents[i].data)]_vars

C7_Witness ==
  /\ pc = "done" /\ h.op = "sweep"
  /\ \E i \in 1..Len(emitted) : emitted[i].name = "contentRemoved"
  /\ \E c \in sockets : \E j \in 1..Len(heard[c]) : heard[c][j].name = "newContent"

\* C8: a sweep at clock value now removes every entry with expiresAt <= now and
\* none with expiresAt > now, and emits content-removed for exactly the ids removed.
C8_SweepRemovesAllDue ==
  (pc = "done" /\ h.op = "sweep") =>
    /\ \A k \in 1..Len(h.entries) :
         /\ h.entries[k].content.expiresAt <= h.now => ~MapHas(store, h.entries[k].id)
         /\ h.entries[k].content.expiresAt > h.now => MapHas(store, h.entries[k].id)
    /\ {emitted[i].data : i \in {n \in 1..Len(emitted) : emitted[n].name = "contentRemoved"}}
         = MapKeys(h.entries) \ MapKeys(store)

\* C9: the sweep is idempotent: once a sweep that read the clock as now is through,
\* a second pass with the same now finds no entry to remove and nothing to emit.
C9_SweepIdempotent ==
  (pc = "done" /\ h.op = "sweep") =>
    \A k \in 1..Len(store) : ~IsExpired(h.now, store[k].content)

C9_Witness ==
  /\ pc = "done" /\ h.op = "sweep"
  /\ Len(emitted) >= 2
  /\ Len(store) = 0

\* C10: get(e.id) returns e at every now < e.expiresAt; the first get at
\* now >= e.expiresAt answers NotFound and removes e from the store. Stated for
\* the entries the download route serves (files): a file that a get leaves in
\* the store is live and was returned, and a get at now >= expiresAt returns no
\* content.
C10_GetUntilExpiry ==
  (pc = "done" /\ h.op = "download") =>
    /\ (MapHas(store, h.fileId) /\ MapGet(store, h.fileId).type = "file") =>
         /\ now < MapGet(store, h.fileId).expiresAt
         /\ h.status = 200
         /\ h.body = MapGet(store, h.fileId).buffer
    /\ h.status = 200 => MapHas(store, h.fileId)

\* What sharedContent.set was called with for id, if it ever was.
WasInserted(id) == \E k \in 1..Len(inserted) : inserted[k].id = id
InsertedAs(id) == inserted[CHOOSE k \in 1..Len(inserted) : inserted[k].id = id]

\* C11: a download tells the two misses apart: for the id of a file that was
\* inserted and is past its expiresAt it answers Expired (410), at every later
\* time and whether the entry was removed by the sweep, by a download, or not
\* yet; for an id that was never inserted it answers NotFound (404).
C11_ExpiredVsNotFound ==
  (pc = "done" /\ h.op = "download") =>
    /\ ~WasInserted(h.fileId) => h.status = 404
    /\ ( /\ WasInserted(h.fileId)
         /\ InsertedAs(h.fileId).type = "file"
         /\ now > InsertedAs(h.fileId).expiresAt ) => h.status = 410

\* C12: with the clock advancing and the sweep firing again and again, every
\* entry that is inserted is eventually out of the store, and from then on is
\* never in it again.
C12_EventuallyRemoved ==
  \A id \in Ids : MapHas(store, id) ~> [](~MapHas(store, id))

C12_Witness ==
  /\ pc = "done" /\ h.op = "sweep"
  /\ \E k \in 1..Len(inserted) :
       /\ inserted[k].expiresAt > TTL
       /\ ~MapHas(store, inserted[k].id)
       /\ \E i \in 1..Len(emitted) :
            emitted[i].name = "contentRemoved" /\ emitted[i].data = inserted[k].id

\* The creation timestamp an entry carries.
CreatedAt(content) == IF content.type = "file" THEN content.uploadedAt ELSE content.sharedAt

\* C13: every entry stored or broadcast has expiresAt = its creation timestamp
\* (uploadedAt, sharedAt) + TTL exactly, also when the clock advances between
\* two statements of the handler that builds it.
C13_ExpiresAtIsCreationPlusTTL ==
  /\ \A k \in 1..Len(store) :
       store[k].content.expiresAt = CreatedAt(store[k].content) + TTL
  /\ \A i \in 1..Len(emitted) :
       emitted[i].name = "newContent" =>
         emitted[i].data.expiresAt = CreatedAt(emitted[i].data) + TTL

\* C14: on connect the hub adds the observer to the registry, sends the initial
\* snapshot to that observer only, and then publishes the updated count to every
\* registered observer, the new one included: the new observer is sent its
\* snapshot before its first client-count.
C14_ConnectOrder ==
  (pc = "done" /\ h.op = "connection") =>
    /\ h.socket \in connectedClients
    /\ Len(emitted) = 2
    /\ emitted[1].name = "initialContent"
    /\ emitted[1].to = {h.socket}
    /\ emitted[2].name = "clientCount"
    /\ emitted[2].to = connectedClients
    /\ emitted[2].data = Cardinality(connectedClients)
    /\ client[h.socket].connectedClients = Cardinality(connectedClients)

C14_Witness ==
  /\ pc = "done" /\ h.op = "connection"
  /\ Cardinality(connectedClients) = 2
  /\ Len(emitted[1].data) >= 1

\* C15: the registry is the set of the observers now connected, and every
\* client-count published carries the registry's size at that moment; on a
\* disconnect the departing observer is removed first and the new count goes to
\* the remaining ones.
C15_RegistryAndCounts ==
  /\ connectedClients = sockets
  /\ \A i \in 1..Len(emitted) :
       emitted[i].name = "clientCount" =>
         /\ emitted[i].data = Cardinality(connectedClients)
         /\ emitted[i].to = sockets
  /\ \A c \in sockets : client[c].connectedClients = Cardinality(sockets)
  /\ (pc = "done" /\ h.op = "disconnect") =>
       /\ h.socket \notin connectedClients
       /\ Len(emitted) = 1
       /\ emitted[1].name = "clientCount"
       /\ h.socket \notin emitted[1].to

C15_Witness ==
  /\ pc = "done" /\ h.op = "disconnect"
  /\ Cardinality(connectedClients) = 1
  /\ \A c \in sockets : client[c].connectedClients = 1

\* The place of id among the insertions so far.
InsertionRank(id) == CHOOSE k \in 1..Len(inserted) : inserted[k].id = id
MostRecentFirst(list) ==
  \A i, j \in 1..Len(list) :
    i < j => InsertionRank(list[i].id) > InsertionRank(list[j].id)

\* C16: the listing sent to a connecting observer is ordered most-recent-first
\* (reverse insertion order), as is the list a client builds by prepending each
\* content-added.
C16_SnapshotMostRecentFirst ==
  \A i \in 1..Len(emitted) :
    emitted[i].name = "initialContent" => MostRecentFirst(emitted[i].data)

\* Empty, or white space only.
IsBlank(t) == \A i \in 1..Len(t) : IsSpace(t[i])

\* C17: a text share whose text is empty or only white space is rejected with a
\* validation error (400): every share that is let through has a text that is
\* not blank, and a rejection leaves the store as it was and emits no event.
C17_BlankTextRejected ==
  [][(pc = "idle" /\ h'.op = "share") =>
       IF pc' = "done"
         THEN /\ h'.status = 400
              /\ store' = store
              /\ inserted' = inserted
              /\ emitted' = <<>>
              /\ client' = client
              /\ heard' = heard
         ELSE ~IsBlank(h'.text)]_vars

C17_Witness ==
  /\ pc = "done" /\ h.op = "share" /\ h.status = 400
  /\ Len(store) >= 1
  /\ sockets # {}

\* 'http://' or 'https://' begins at i and a character that is not white space
\* follows it.
UrlStart(t, i) ==
  \/ /\ HasAt(t, i, <<"h", "t", "t", "p", ":", "/", "/">>)
     /\ i + 7 <= Len(t) /\ ~IsSpace(t[i + 7])
  \/ /\ HasAt(t, i, <<"h", "t", "t", "p", "s", ":", "/", "/">>)
     /\ i + 8 <= Len(t) /\ ~IsSpace(t[i + 8])
HasUrl(t) == \E i \in 1..Len(t) : UrlStart(t, i)
\* The leftmost such place, and from there on to the next white space or the end.
FirstUrl(t) ==
  LET i == CHOOSE k \in 1..Len(t) : UrlStart(t, k) /\ \A m \in 1..(k - 1) : ~UrlStart(t, m)
      e == CHOOSE j \in i..Len(t) :
             /\ \A m \in i..j : ~IsSpace(t[m])
             /\ (j = Len(t) \/ IsSpace(t[j + 1]))
  IN SubSeq(t, i, e)

\* C18: the link metadata of a text entry comes from its raw text, whatever the
\* rendering mode: hasLinks is true exactly when the text holds 'http://' or
\* 'https://' followed by a character that is not white space, and firstUrl is
\* then the leftmost such substring, as long as it can be
\* ('Check https://example.com now' gives 'https://example.com').
C18_LinkMetadata ==
  \A k \in 1..Len(store) :
    LET content == store[k].content IN
    content.type = "text" =>
      /\ IF HasUrl(content.content)
           THEN content.metadata = [hasLinks |-> TRUE, firstUrl |-> FirstUrl(content.content)]
           ELSE content.metadata = <<>>
      /\ content.content = Example => content.metadata.firstUrl = ExampleUrl

C18_Witness ==
  \E k \in 1..Len(store) :
    /\ store[k].content.type = "text"
    /\ store[k].content.content = Example
    /\ store[k].content.processedContent = Marked(Example)
    /\ store[k].content.metadata = [hasLinks |-> TRUE, firstUrl |-> ExampleUrl]

\* At most 100 MiB and of a type that begins with one of the allow-listed prefixes.
Acceptable(size, mimetype) ==
  /\ size <= FileSizeLimit
  /\ \E k \in 1..Len(allowedTypes) : StartsWith(mimetype, allowedTypes[k])

\* C19: every file entry in the store is at most 100 MiB and has a MIME type
\* that starts with an allow-listed prefix; an upload that breaks either limit
\* is rejected before anything is inserted: the store is as it was and no
\* content-added goes out.
C19_UploadsValidated ==
  /\ [](\A k \in 1..Len(store) :
          store[k].content.type = "file" =>
            Acceptable(store[k].content.size, store[k].content.mimetype))
  /\ [][(pc = "idle" /\ h'.op = "upload") =>
          IF pc' = "done"
            THEN /\ h'.status \in {400, 500}
                 /\ store' = store
                 /\ inserted' = inserted
                 /\ emitted' = <<>>
                 /\ client' = client
                 /\ heard' = heard
            ELSE Acceptable(h'.file.size, h'.file.mimetype)]_vars

C19_Witness ==
  /\ pc = "done" /\ h.op = "upload" /\ h.status = 500
  /\ \E k \in 1..Len(store) : store[k].content.type = "file"
  /\ sockets # {}

\* C20: the limit of 1000 characters on a text is enforced by the client: the
\* text-share form never submits a request whose text is longer, so no text
\* entry longer than 1000 characters reaches the store through it.
C20_UiTextWithinLimit ==
  /\ pc = "request" => Len(h.body.text) <= TextLimit
  /\ \A k \in 1..Len(store) :
       store[k].content.type = "text" => Len(store[k].content.content) <= TextLimit

\* The expired entries a sweep has met, but for the one it failed on (if any).
OthersDue ==
  {k \in 1..Len(h.entries) :
     /\ IsExpired(h.now, h.entries[k].content)
     /\ ~(pc = "crashed" /\ k = h.i)}

\* C21: a failure while one expired entry is removed or broadcast does not abort
\* the sweep: every other expired entry is still removed and its content-removed
\* emitted in the same tick, and the next tick still runs: when a sweep is over,
\* however it ended, all of them are gone and announced.
C21_SweepIsolatesFailures ==
  (pc = "crashed" \/ (pc = "done" /\ h.op = "sweep")) =>
    \A k \in OthersDue :
      /\ ~MapHas(store, h.entries[k].id)
      /\ \E i \in 1..Len(emitted) :
           emitted[i].name = "contentRemoved" /\ emitted[i].data = h.entries[k].id

\* The running upload or share has drawn an id.
DrewId == "fileId" \in DOMAIN h \/ "contentId" \in DOMAIN h

\* C22: a failure of the content-added broadcast does not reach the caller: an
\* upload or text share that has inserted its entry still reports success, so
\* a request that reports a failure has left no entry in the store.
C22_BroadcastFailureNotRaised ==
  (pc = "done" /\ h.op \in {"upload", "share"} /\ DrewId) =>
    /\ MapHas(store, HandlerId) => h.status = 200
    /\ h.status # 200 => ~MapHas(store, HandlerId)

\* C23: no operation changes a stored entry after its insertion: from insert to
\* removal every field of it, a file's payload included, stays as it is through
\* broadcasts, connects, downloads and sweeps; the upload stores the payload it
\* was sent, and a download of a live file returns that payload.
C23_StoredEntryUnchanged ==
  [][/\ \A k \in 1..Len(store) :
          MapHas(store', store[k].id) => MapGet(store', store[k].id) = store[k].content
     /\ (pc = "uploadBuild" /\ pc' = "uploadEmit") =>
          MapGet(store', h.fileId).buffer = h.file.buffer
     /\ (pc = "idle" /\ pc' = "done" /\ h'.op = "download" /\ h'.status = 200) =>
          h'.body = MapGet(store, h'.fileId).buffer]_vars

C23_Witness ==
  /\ pc = "done" /\ h.op = "download" /\ h.status = 200
  /\ h.body = <<7, 9>>
  /\ h.fileId \in published
  /\ \E c \in sockets : \E j \in 1..Len(heard[c]) :
       heard[c][j].name = "newContent" /\ heard[c][j].ids = <<h.fileId>>

\* C24: under every interleaving of sweeps, downloads (with their lazy eviction),
\* uploads and text shares, an entry is removed from the store at most once (an
\* id that has left the store does not come back), content-removed is emitted
\* at most once per id, and no insert is lost (an entry leaves the store only
\* past its expiresAt).
C24_RemovedOnce ==
  [][/\ \A i \in 1..Len(NewEvents) :
          NewEvents[i].name = "contentRemoved" => NewEvents[i].data \notin removed
     /\ \A id \in Ids :
          /\ (WasInserted(id) /\ ~MapHas(store, id)) => ~MapHas(store', id)
          /\ (MapHas(store, id) /\ ~MapHas(store', id)) =>
               now > MapGet(store, id).expiresAt]_vars

C24_Witness ==
  /\ pc = "idle"
  /\ removed # {}
  /\ \E id \in Ids : WasInserted(id) /\ ~MapHas(store, id) /\ id \notin removed
  /\ store = <<>>

\* The ids in a client's list.
ListIds(list) == {list[i].id : i \in 1..Len(list)}

\* C25: a connected client's list tracks the store: whenever every emitted event
\* has been delivered (no handler is running), the ids in its sharedContent are
\* the ids in the server's store, after any uploads, text shares, sweeps,
\* downloads (a lazily evicting one included) and reconnects.
C25_ClientTracksStore ==
  pc = "idle" =>
    \A c \in sockets : ListIds(client[c].sharedContent) = MapKeys(store)

\* C27: the ids of the toasts on the screen are unique, after any addToast and
\* removeToast calls, two addToast calls at one clock value included, so that
\* removeToast(id) removes exactly one toast.
C27_ToastIdsUnique ==
  \A i, j \in 1..Len(toasts) : i # j => toasts[i].id # toasts[j].id

\* C26: the progress interval started for a dropped file is stopped once that
\* file's upload has settled, whether onFileUpload resolved or rejected, so no
\* timer-driven progress update reaches the file's entry afterwards; progress
\* is 100 only on an entry in status 'success' and at most 90 on any other.
C26_IntervalStopped ==
  /\ \A file \in uploads.dropped \ uploads.pending : file \notin uploads.intervals
  /\ \A i \in 1..Len(uploads.list) :
       IF uploads.list[i].status = "success"
         THEN uploads.list[i].progress = 100
         ELSE uploads.list[i].progress <= 90
====
